---- MODULE Spec2Model ----
(***************************************************************************)
(* A model of ps-launcher (src/ps-launcher.cpp): WinMain parses its own    *)
(* command line, resolves powershell.exe under the system directory,       *)
(* assembles a quoted command line in a fixed buffer, starts the child,    *)
(* waits for it and returns its exit code.                                 *)
(*                                                                         *)
(* Strings are sequences of one-character strings; a C string is modelled  *)
(* by its characters before the terminator.  The command-line buffer cmd   *)
(* is modelled cell by cell, terminator included: cmd is the sequence of   *)
(* the cells written so far (cell k of the C array is cmd[k+1]), every     *)
(* cell beyond Len(cmd) is still uninitialised.                            *)
(***************************************************************************)
EXTENDS Integers, Sequences, FiniteSets, TLC

(***************************************************************************)
(* Program constants                                                       *)
(***************************************************************************)
CMD_BUFFER_SIZE == 1024
MAX_PATH == 260
ENABLE_ERROR_DIALOGS == FALSE

NUL == "NUL"
UNINIT == "UNINIT"
QUOTE == "\""
BACKSLASH == "\\"
SEMICOLON == ";"
SPACE == " "
NoValue == -1

SCRIPT_FLAG == <<"-", "S", "c", "r", "i", "p", "t">>
psRelative == <<"W", "i", "n", "d", "o", "w", "s", "P", "o", "w", "e", "r", "S", "h", "e", "l", "l", "\\", "v", "1", ".", "0", "\\", "p", "o", "w", "e", "r", "s", "h", "e", "l", "l", ".", "e", "x", "e">>
PS_FLAGS == <<" ", "-", "N", "o", "n", "I", "n", "t", "e", "r", "a", "c", "t", "i", "v", "e", " ", "-", "N", "o", "P", "r", "o", "f", "i", "l", "e", " ", "-", "E", "x", "e", "c", "u", "t", "i", "o", "n", "P", "o", "l", "i", "c", "y", " ", "B", "y", "p", "a", "s", "s", " ", "-", "F", "i", "l", "e", " ">>

(***************************************************************************)
(* Bounds of the model                                                     *)
(***************************************************************************)
MaxArgSize == 4
MaxSlack == 4

(***************************************************************************)
(* Inputs: argument vectors, system directories, error and exit codes      *)
(***************************************************************************)
Chars == {"a", QUOTE, SEMICOLON, BACKSLASH, SPACE}
CapChars == {"a", QUOTE}

Fill(n) == [k \in 1..n |-> "a"]

Tokens(alphabet, n) == UNION {[1..k -> alphabet] : k \in 0..n}

\* The lists of forwarded parameters over an alphabet whose size, one per
\* parameter plus one per character, is at most size.
RECURSIVE ParamLists(_, _)
ParamLists(alphabet, size) ==
    IF size <= 0 THEN {<< >>}
    ELSE {<< >>} \cup
         UNION {{<<t>> \o rest : rest \in ParamLists(alphabet, size - 1 - Len(t))} :
                t \in Tokens(alphabet, size - 1)}

ProgramName == <<"p", "s", "-", "l", "a", "u", "n", "c", "h", "e", "r", ".", "e", "x", "e">>
ShortScript == <<"s", ".", "p", "s", "1">>
FlagTokens == {SCRIPT_FLAG,
               <<"-", "S", "C", "R", "I", "P", "T">>,
               <<"-", "s", "c", "r", "i", "p", "t">>,
               <<"-", "S", "c", "r", "i", "p">>,
               <<"-", "S", "c", "r", "i", "p", "t", "s">>,
               <<"-", "F", "i", "l", "e">>,
               << >>}

SystemDir == <<"C", ":", "\\", "W", "i", "n", "d", "o", "w", "s", "\\", "s", "y", "s", "t", "e", "m", "3", "2">>
RootDir == <<"C", ":", "\\">>

\* Length of the command line up to and including the quote that opens the
\* script path, when the system directory is SystemDir.
NominalHead == 1 + (Len(SystemDir) + 1 + Len(psRelative)) + 1 + Len(PS_FLAGS) + 1
\* Script paths that leave k free characters after the closing quote of the
\* script path (k = -1: the closing quote itself does not fit; k = -2: the
\* script path does not fit).
LongScript(k) == Fill(CMD_BUFFER_SIZE - 1 - NominalHead - 1 - k)
LongScripts == {LongScript(k) : k \in (0 - 2)..MaxSlack}

\* Argument vectors: short ones (argc < 3), every flag token with at most one
\* parameter, the exact flag with every parameter list, and long script
\* paths that fill the buffer, followed by parameter lists that overflow it
\* at each append of the parameter loop.
ShortVectors == {<<ProgramName>>} \cup {<<ProgramName, f>> : f \in FlagTokens}
FlagVectors == {<<ProgramName, f, ShortScript>> \o t :
                f \in FlagTokens, t \in ParamLists(Chars, 2)}
MainVectors == {<<ProgramName, SCRIPT_FLAG, ShortScript>> \o t : t \in ParamLists(Chars, MaxArgSize)}
CapVectors == {<<ProgramName, SCRIPT_FLAG, s>> \o t : s \in LongScripts, t \in ParamLists(CapChars, 3)}
ArgVectors == ShortVectors \cup FlagVectors \cup MainVectors \cup CapVectors

\* What GetSystemDirectoryW can answer: ret is its return value, text the
\* path it stored (nothing on failure or when the buffer is too small).
SystemDirResults ==
    {[ret |-> 0, text |-> << >>],
     [ret |-> MAX_PATH + 40, text |-> << >>],
     [ret |-> Len(SystemDir), text |-> SystemDir],
     [ret |-> Len(RootDir), text |-> RootDir],
     [ret |-> MAX_PATH - 1, text |-> RootDir \o Fill(MAX_PATH - 1 - Len(RootDir))],
     [ret |-> MAX_PATH - 1 - Len(psRelative), text |-> RootDir \o Fill(MAX_PATH - 1 - Len(psRelative) - Len(RootDir))],
     [ret |-> MAX_PATH - 1 - Len(psRelative) - 1, text |-> RootDir \o Fill(MAX_PATH - 1 - Len(psRelative) - 1 - Len(RootDir))]}

LastErrors == {2, 5}
ExitCodes == {0, 3}

(***************************************************************************)
(* Helpers of the program                                                  *)
(***************************************************************************)
lstrlenW(str) == Len(str)

UpperLetters == <<"A", "B", "C", "D", "E", "F", "G", "H", "I", "J", "K", "L", "M", "N", "O", "P", "Q", "R", "S", "T", "U", "V", "W", "X", "Y", "Z">>
LowerLetters == <<"a", "b", "c", "d", "e", "f", "g", "h", "i", "j", "k", "l", "m", "n", "o", "p", "q", "r", "s", "t", "u", "v", "w", "x", "y", "z">>
ToLower(c) ==
    IF \E k \in 1..Len(UpperLetters) : UpperLetters[k] = c
    THEN LowerLetters[CHOOSE k \in 1..Len(UpperLetters) : UpperLetters[k] = c]
    ELSE c

\* lstrcmpiW: 0 when the strings are equal ignoring case; the sign of a
\* non-zero result is not used by the program and not modelled.
lstrcmpiW(a, b) ==
    IF Len(a) = Len(b) /\ \A k \in 1..Len(a) : ToLower(a[k]) = ToLower(b[k])
    THEN 0 ELSE 1

\* n cells that were never written.
Unwritten(n) == [k \in 1..n |-> UNINIT]

\* buf with cell idx (0-based) set to ch.
Store(buf, idx, ch) ==
    IF idx < Len(buf) THEN [buf EXCEPT ![idx + 1] = ch]
    ELSE buf \o Unwritten(idx - Len(buf)) \o <<ch>>

\* The copy loop of AppendStr: src copied to cells at .. at+Len(src)-1.
CopyChars(buf, at, src) ==
    IF at >= Len(buf) THEN buf \o Unwritten(at - Len(buf)) \o src
    ELSE SubSeq(buf, 1, at) \o src \o SubSeq(buf, at + Len(src) + 1, Len(buf))

AppendStr_OffByOne(dest, destSize, src, curLen) ==
    LET srcLen == lstrlenW(src) IN
    IF curLen + srcLen > destSize
    THEN [ok |-> FALSE, dest |-> dest, curLen |-> curLen]
    ELSE [ok |-> TRUE,
          dest |-> Store(CopyChars(dest, curLen, src), curLen + srcLen, NUL),
          curLen |-> curLen + srcLen]

AppendStr(dest, destSize, src, curLen) ==
    LET srcLen == lstrlenW(src) IN
    IF curLen + srcLen >= destSize
    THEN [ok |-> FALSE, dest |-> dest, curLen |-> curLen]
    ELSE [ok |-> TRUE,
          dest |-> Store(CopyChars(dest, curLen, src), curLen + srcLen, NUL),
          curLen |-> curLen + srcLen]

\* The inline pattern that appends one double quote:
\*   if (pos < CMD_BUFFER_SIZE - 1) { cmd[pos++] = '"'; cmd[pos] = 0; } else fail
AppendQuoteChar(dest, destSize, curLen) ==
    IF curLen < destSize - 1
    THEN [ok |-> TRUE,
          dest |-> Store(Store(dest, curLen, QUOTE), curLen + 1, NUL),
          curLen |-> curLen + 1]
    ELSE [ok |-> FALSE, dest |-> dest, curLen |-> curLen]

RECURSIVE AppendEscapedFrom(_, _, _, _, _, _)
AppendEscapedFrom(dest, destSize, src, curLen, j, escape) ==
    IF j > Len(src)
    THEN [ok |-> TRUE, dest |-> dest, curLen |-> curLen]
    ELSE LET piece == IF src[j] = QUOTE THEN escape ELSE <<src[j]>>
             r == AppendStr(dest, destSize, piece, curLen)
         IN  IF ~r.ok THEN r
             ELSE AppendEscapedFrom(r.dest, destSize, src, r.curLen, j + 1, escape)

AppendEscaped_Doubling(dest, destSize, src, curLen) ==
    AppendEscapedFrom(dest, destSize, src, curLen, 1, <<QUOTE, QUOTE>>)

AppendEscaped(dest, destSize, src, curLen) ==
    AppendEscapedFrom(dest, destSize, src, curLen, 1, <<BACKSLASH, QUOTE>>)

\* The C string held by buf: the cells before the first terminator.
CStr(buf) ==
    IF \E k \in 1..Len(buf) : buf[k] = NUL
    THEN SubSeq(buf, 1, (CHOOSE k \in 1..Len(buf) :
                            buf[k] = NUL /\ \A m \in 1..(k - 1) : buf[m] # NUL) - 1)
    ELSE buf

\* if (argc < 3 || lstrcmpiW(args[1], L"-Script") != 0)
UsageError_NoFlagTest(n, argv) == n < 3

UsageError(n, argv) == n < 3 \/ lstrcmpiW(argv[2], SCRIPT_FLAG) # 0

\* The security scan: for (j = 0; j < lstrlenW(args[i]); j++) if (args[i][j] == ';')
HasSemicolon_SkipsQuoted(str) ==
    /\ ~(Len(str) >= 2 /\ str[1] = QUOTE /\ str[Len(str)] = QUOTE)
    /\ \E j \in 1..lstrlenW(str) : str[j] = SEMICOLON

HasSemicolon(str) == \E j \in 1..lstrlenW(str) : str[j] = SEMICOLON

AlreadyQuoted_LongerThan2(str) ==
    LET argLen == lstrlenW(str) IN
    argLen > 2 /\ str[1] = QUOTE /\ str[argLen] = QUOTE

AlreadyQuoted(str) ==
    LET argLen == lstrlenW(str) IN
    argLen >= 2 /\ str[1] = QUOTE /\ str[argLen] = QUOTE

HasInternalQuotes(str) == \E j \in 1..Len(str) : str[j] = QUOTE

ShowError(n) == IF ENABLE_ERROR_DIALOGS THEN n + 1 ELSE n
MessageBoxW(n) == n + 1

SpawnFailureCode_Fixed(e) == 1

\* return err;
SpawnFailureCode(e) == e

GetExitCodeProcess_Default(code) == 0

\* DWORD exitCode = 0; GetExitCodeProcess(pi.hProcess, &exitCode);
GetExitCodeProcess(code) == code

INVALID_FILE_ATTRIBUTES == "INVALID_FILE_ATTRIBUTES"
FileAttributes == {INVALID_FILE_ATTRIBUTES, "FILE_ATTRIBUTE_ARCHIVE"}
NotQueried == "not queried"

NotFound_Never(attrs) == FALSE

NotFound(attrs) == attrs = INVALID_FILE_ATTRIBUTES

(***************************************************************************)
(* State                                                                   *)
(***************************************************************************)
VARIABLES
    pc,        \* the statement WinMain is at; "done" once it has returned
    args,      \* the array CommandLineToArgvW returned (<< >> is NULL)
    argc,
    len,       \* UINT len, the answer of GetSystemDirectoryW
    psAttrs,     \* what GetFileAttributesW(psPath) returned
    scriptAttrs, \* what GetFileAttributesW(args[2]) returned
    psPath,    \* the C string in WCHAR psPath[MAX_PATH]
    cmd,       \* the cells of WCHAR cmd[CMD_BUFFER_SIZE] written so far
    pos,       \* size_t pos
    i,         \* the loop variable of the parameter loop
    mark,      \* pos when the current iteration of the parameter loop began
    frees,     \* number of LocalFree(args) calls made
    shown,     \* number of message boxes displayed
    child,     \* "none", "running" or "exited"
    childCmd,  \* the command line CreateProcessW was given
    childExit, \* the exit code the child reported
    hProcess,  \* pi.hProcess: "null", "open" or "closed"
    hThread,   \* pi.hThread
    err,       \* DWORD err
    exitCode,  \* DWORD exitCode
    ret        \* the value WinMain returned

vars == <<pc, args, argc, len, psPath, psAttrs, scriptAttrs, cmd, pos, i, mark, frees, shown, child,
          childCmd, childExit, hProcess, hThread, err, exitCode, ret>>

resolveVars == <<len, psPath>>
fileVars == <<psAttrs, scriptAttrs>>
buildVars == <<cmd, pos, i, mark>>
childVars == <<child, childCmd, childExit, hProcess, hThread, err, exitCode>>

\* args[k] of the C program (0-based).
Arg(k) == args[k + 1]

Init ==
    /\ pc = "parse"
    /\ args = << >>
    /\ argc = 0
    /\ len = NoValue
    /\ psPath = << >>
    /\ psAttrs = NotQueried
    /\ scriptAttrs = NotQueried
    /\ cmd = << >>
    /\ pos = 0
    /\ i = 0
    /\ mark = 0
    /\ frees = 0
    /\ shown = 0
    /\ child = "none"
    /\ childCmd = << >>
    /\ childExit = NoValue
    /\ hProcess = "null"
    /\ hThread = "null"
    /\ err = 0
    /\ exitCode = 0
    /\ ret = NoValue

\* return code;
Return(code) == pc' = "done" /\ ret' = code

\* A failure branch that forgets LocalFree(args).
FailFreed_Leak ==
    /\ UNCHANGED frees
    /\ shown' = ShowError(shown)
    /\ Return(1)

\* LocalFree(args); ShowError(...); return 1;
FailFreed ==
    /\ frees' = frees + 1
    /\ shown' = ShowError(shown)
    /\ Return(1)

(***************************************************************************)
(* Command line parsing and validation (lines 204-243)                     *)
(***************************************************************************)
Parse ==
    /\ pc = "parse"
    /\ \/ \E v \in ArgVectors :
            /\ args' = v
            /\ argc' = Len(v)
            /\ pc' = "usage"
            /\ UNCHANGED <<shown, ret>>
       \/ /\ UNCHANGED <<args, argc>>
          /\ shown' = ShowError(shown)
          /\ Return(1)
    /\ UNCHANGED <<resolveVars, fileVars, buildVars, childVars, frees>>

CheckUsage ==
    /\ pc = "usage"
    /\ IF UsageError(argc, args)
       THEN /\ shown' = MessageBoxW(shown)
            /\ frees' = frees + 1
            /\ Return(1)
       ELSE /\ pc' = "sysdir"
            /\ UNCHANGED <<shown, frees, ret>>
    /\ UNCHANGED <<args, argc, resolveVars, fileVars, buildVars, childVars>>

(***************************************************************************)
(* Interpreter path (lines 249-291)                                        *)
(***************************************************************************)
QuerySystemDirectory ==
    /\ pc = "sysdir"
    /\ \E r \in SystemDirResults :
        /\ len' = r.ret
        /\ psPath' = r.text
        /\ IF r.ret = 0 \/ r.ret > MAX_PATH - 1
           THEN FailFreed
           ELSE pc' = "separator" /\ UNCHANGED <<frees, shown, ret>>
    /\ UNCHANGED <<args, argc, fileVars, buildVars, childVars>>

EnsureSeparator ==
    /\ pc = "separator"
    /\ IF psPath[len] # BACKSLASH
       THEN IF len < MAX_PATH - 1
            THEN /\ psPath' = Append(psPath, BACKSLASH)
                 /\ pc' = "concat"
                 /\ UNCHANGED <<frees, shown, ret>>
            ELSE /\ FailFreed
                 /\ UNCHANGED psPath
       ELSE /\ pc' = "concat"
            /\ UNCHANGED <<psPath, frees, shown, ret>>
    /\ UNCHANGED <<args, argc, len, fileVars, buildVars, childVars>>

ConcatRelative ==
    /\ pc = "concat"
    /\ IF lstrlenW(psPath) + lstrlenW(psRelative) >= MAX_PATH
       THEN /\ FailFreed
            /\ UNCHANGED psPath
       ELSE /\ psPath' = psPath \o psRelative
            /\ pc' = "chkps"
            /\ UNCHANGED <<frees, shown, ret>>
    /\ UNCHANGED <<args, argc, len, fileVars, buildVars, childVars>>

(***************************************************************************)
(* File validation (lines 297-310)                                         *)
(***************************************************************************)
CheckInterpreter ==
    /\ pc = "chkps"
    /\ \E attrs \in FileAttributes :
        /\ psAttrs' = attrs
        /\ IF NotFound(attrs)
           THEN FailFreed
           ELSE pc' = "chkscript" /\ UNCHANGED <<frees, shown, ret>>
    /\ UNCHANGED <<args, argc, resolveVars, scriptAttrs, buildVars, childVars>>

CheckScript ==
    /\ pc = "chkscript"
    /\ \E attrs \in FileAttributes :
        /\ scriptAttrs' = attrs
        /\ IF NotFound(attrs)
           THEN FailFreed
           ELSE pc' = "q1" /\ UNCHANGED <<frees, shown, ret>>
    /\ UNCHANGED <<args, argc, resolveVars, psAttrs, buildVars, childVars>>

(***************************************************************************)
(* Command line building (lines 316-394)                                   *)
(***************************************************************************)
\* One append of the build: r is its outcome, next the statement after it.
BuildStep(r, next) ==
    /\ cmd' = r.dest
    /\ pos' = r.curLen
    /\ IF r.ok
       THEN pc' = next /\ UNCHANGED <<frees, shown, ret>>
       ELSE FailFreed
    /\ UNCHANGED <<args, argc, resolveVars, fileVars, mark, childVars>>

LoopHead_SkipsLast(n) == IF n < argc - 1 THEN "scan" ELSE "free"

\* for (int i = 3; i < argc; i++): the statement reached with loop variable n.
LoopHead(n) == IF n < argc THEN "scan" ELSE "free"

OpenInterpreterQuote ==
    /\ pc = "q1"
    /\ BuildStep(AppendQuoteChar(cmd, CMD_BUFFER_SIZE, pos), "ps")
    /\ UNCHANGED i

AppendInterpreter ==
    /\ pc = "ps"
    /\ BuildStep(AppendStr(cmd, CMD_BUFFER_SIZE, psPath, pos), "q2")
    /\ UNCHANGED i

CloseInterpreterQuote ==
    /\ pc = "q2"
    /\ BuildStep(AppendQuoteChar(cmd, CMD_BUFFER_SIZE, pos), "flags")
    /\ UNCHANGED i

AppendFlags ==
    /\ pc = "flags"
    /\ BuildStep(AppendStr(cmd, CMD_BUFFER_SIZE, PS_FLAGS, pos), "q3")
    /\ UNCHANGED i

OpenScriptQuote ==
    /\ pc = "q3"
    /\ BuildStep(AppendQuoteChar(cmd, CMD_BUFFER_SIZE, pos), "script")
    /\ UNCHANGED i

AppendScript ==
    /\ pc = "script"
    /\ BuildStep(AppendStr(cmd, CMD_BUFFER_SIZE, Arg(2), pos), "q4")
    /\ UNCHANGED i

CloseScriptQuote ==
    /\ pc = "q4"
    /\ BuildStep(AppendQuoteChar(cmd, CMD_BUFFER_SIZE, pos), LoopHead(3))
    /\ i' = IF AppendQuoteChar(cmd, CMD_BUFFER_SIZE, pos).ok THEN 3 ELSE i

(***************************************************************************)
(* Parameter processing (lines 400-487)                                    *)
(***************************************************************************)
\* The scan placed after the separating space instead of before it.
ScanParam_AfterSpace ==
    /\ pc = "scan"
    /\ mark' = pos
    /\ LET r == AppendStr(cmd, CMD_BUFFER_SIZE, <<SPACE>>, pos) IN
        /\ cmd' = r.dest
        /\ pos' = r.curLen
        /\ IF ~r.ok \/ HasSemicolon(Arg(i))
           THEN /\ frees' = frees + 1
                /\ Return(1)
           ELSE /\ pc' = "param"
                /\ UNCHANGED <<frees, ret>>
    /\ UNCHANGED <<args, argc, resolveVars, fileVars, i, shown, childVars>>

ScanParam ==
    /\ pc = "scan"
    /\ mark' = pos
    /\ IF HasSemicolon(Arg(i))
       THEN /\ frees' = frees + 1
            /\ Return(1)
       ELSE /\ pc' = "space"
            /\ UNCHANGED <<frees, ret>>
    /\ UNCHANGED <<args, argc, resolveVars, fileVars, cmd, pos, i, shown, childVars>>

\* An append inside the loop; the two that precede the quoting decision fail
\* silently, the others through ShowError.
ParamStep(r, next, silent) ==
    /\ cmd' = r.dest
    /\ pos' = r.curLen
    /\ IF r.ok
       THEN pc' = next /\ UNCHANGED <<frees, shown, ret>>
       ELSE /\ frees' = frees + 1
            /\ shown' = IF silent THEN shown ELSE ShowError(shown)
            /\ Return(1)
    /\ UNCHANGED <<args, argc, resolveVars, fileVars, mark, childVars>>

AppendSpace ==
    /\ pc = "space"
    /\ ParamStep(AppendStr(cmd, CMD_BUFFER_SIZE, <<SPACE>>, pos), "param", TRUE)
    /\ UNCHANGED i

AppendVerbatim ==
    /\ pc = "param"
    /\ AlreadyQuoted(Arg(i))
    /\ ParamStep(AppendStr(cmd, CMD_BUFFER_SIZE, Arg(i), pos), LoopHead(i + 1), FALSE)
    /\ i' = IF AppendStr(cmd, CMD_BUFFER_SIZE, Arg(i), pos).ok THEN i + 1 ELSE i

OpenParamQuote ==
    /\ pc = "param"
    /\ ~AlreadyQuoted(Arg(i))
    /\ ParamStep(AppendStr(cmd, CMD_BUFFER_SIZE, <<QUOTE>>, pos), "body", FALSE)
    /\ UNCHANGED i

AppendBody ==
    /\ pc = "body"
    /\ ParamStep(IF HasInternalQuotes(Arg(i))
                 THEN AppendEscaped(cmd, CMD_BUFFER_SIZE, Arg(i), pos)
                 ELSE AppendStr(cmd, CMD_BUFFER_SIZE, Arg(i), pos),
                 "closeq", FALSE)
    /\ UNCHANGED i

CloseParamQuote ==
    /\ pc = "closeq"
    /\ ParamStep(AppendStr(cmd, CMD_BUFFER_SIZE, <<QUOTE>>, pos), LoopHead(i + 1), FALSE)
    /\ i' = IF AppendStr(cmd, CMD_BUFFER_SIZE, <<QUOTE>>, pos).ok THEN i + 1 ELSE i

(***************************************************************************)
(* Process creation and exit code propagation (lines 490-547)              *)
(***************************************************************************)
FreeArgs ==
    /\ pc = "free"
    /\ frees' = frees + 1
    /\ pc' = "create"
    /\ UNCHANGED <<args, argc, resolveVars, fileVars, buildVars, childVars, shown, ret>>

CreateProcessW ==
    /\ pc = "create"
    /\ \/ /\ child' = "running"
          /\ childCmd' = CStr(cmd)
          /\ hProcess' = "open"
          /\ hThread' = "open"
          /\ pc' = "wait"
          /\ UNCHANGED <<err, shown, ret>>
       \/ \E e \in LastErrors :
          /\ err' = e
          /\ shown' = ShowError(shown)
          /\ Return(SpawnFailureCode(e))
          /\ UNCHANGED <<child, childCmd, hProcess, hThread>>
    /\ UNCHANGED <<args, argc, resolveVars, fileVars, buildVars, frees, childExit, exitCode>>

\* The child terminates (a step of the child, not of the launcher).
ChildExit ==
    /\ child = "running"
    /\ child' = "exited"
    /\ \E c \in ExitCodes : childExit' = c
    /\ UNCHANGED <<pc, args, argc, resolveVars, fileVars, buildVars, frees, shown,
                   childCmd, hProcess, hThread, err, exitCode, ret>>

\* WaitForSingleObject(pi.hProcess, INFINITE) returns once the child has exited.
WaitForChild ==
    /\ pc = "wait"
    /\ child = "exited"
    /\ pc' = "getexit"
    /\ UNCHANGED <<args, argc, resolveVars, fileVars, buildVars, frees, shown, childVars, ret>>

ReadExitCode ==
    /\ pc = "getexit"
    /\ exitCode' = GetExitCodeProcess(childExit)
    /\ pc' = "close"
    /\ UNCHANGED <<args, argc, resolveVars, fileVars, buildVars, frees, shown, child,
                   childCmd, childExit, hProcess, hThread, err, ret>>

\* CloseHandle(h): an open handle is closed; closing anything else is an
\* error of the caller.
CloseHandle(h) == IF h = "open" THEN "closed" ELSE "invalid"

CloseHandles ==
    /\ pc = "close"
    /\ hProcess' = CloseHandle(hProcess)
    /\ hThread' = CloseHandle(hThread)
    /\ Return(exitCode)
    /\ UNCHANGED <<args, argc, resolveVars, fileVars, buildVars, frees, shown, child,
                   childCmd, childExit, err, exitCode>>

LauncherNext ==
    \/ Parse
    \/ CheckUsage
    \/ QuerySystemDirectory
    \/ EnsureSeparator
    \/ ConcatRelative
    \/ CheckInterpreter
    \/ CheckScript
    \/ OpenInterpreterQuote
    \/ AppendInterpreter
    \/ CloseInterpreterQuote
    \/ AppendFlags
    \/ OpenScriptQuote
    \/ AppendScript
    \/ CloseScriptQuote
    \/ ScanParam
    \/ AppendSpace
    \/ AppendVerbatim
    \/ OpenParamQuote
    \/ AppendBody
    \/ CloseParamQuote
    \/ FreeArgs
    \/ CreateProcessW
    \/ WaitForChild
    \/ ReadExitCode
    \/ CloseHandles

Next == LauncherNext \/ ChildExit

Spec == Init /\ [][Next]_vars

\* The statements from the wait to the return.
WaitAndReturn == WaitForChild \/ ReadExitCode \/ CloseHandles

\* The launcher is a running thread: once the wait can return, it does, and
\* the statements after it are executed.  Nothing is assumed of the child.
FairSpec == Spec /\ WF_vars(WaitAndReturn)

(***************************************************************************)
(* What the claims speak of, stated without the program's own helpers      *)
(***************************************************************************)
Contains(str, ch) == \E k \in DOMAIN str : str[k] = ch

PreQuoted(str) == Len(str) >= 2 /\ str[1] = QUOTE /\ str[Len(str)] = QUOTE

\* The indices (0-based, as in the program) of the forwarded parameters.
Forwarded == 3..(argc - 1)

SameIgnoringCase(a, b) ==
    /\ Len(a) = Len(b)
    /\ \A k \in 1..Len(a) :
        \/ a[k] = b[k]
        \/ \E m \in 1..Len(UpperLetters) :
            {a[k], b[k]} = {UpperLetters[m], LowerLetters[m]}

FlagText == <<"-", "S", "c", "r", "i", "p", "t">>

Parsed == args # << >>

\* The launcher has not gone past validation: nothing resolved, built or spawned.
NothingStarted ==
    /\ len = NoValue /\ psPath = << >>
    /\ psAttrs = NotQueried /\ scriptAttrs = NotQueried
    /\ cmd = << >> /\ pos = 0
    /\ child = "none" /\ childCmd = << >> /\ hProcess = "null" /\ hThread = "null"

NoChildEver ==
    /\ child = "none" /\ childCmd = << >>
    /\ hProcess = "null" /\ hThread = "null"
    /\ pc \notin {"wait", "getexit", "close"}

\* C1: when some forwarded parameter contains a semicolon, pre-quoted or
\* not, no child process is ever created, the launcher never reaches
\* process creation nor its only blocking statement (the wait), and it
\* returns 1.
C1_SemicolonRejected ==
    (Parsed /\ \E k \in Forwarded : Contains(Arg(k), SEMICOLON)) =>
        /\ NoChildEver
        /\ pc \notin {"free", "create"}
        /\ (pc = "done" => ret = 1)

C1_Witness ==
    /\ pc = "done" /\ ret = 1 /\ child = "none"
    /\ argc = 4 /\ Arg(3) = <<QUOTE, SEMICOLON, QUOTE>>
    /\ cmd # << >> /\ frees = 1

\* C2: with fewer than 3 tokens, or token 1 not -Script up to case, the
\* launcher goes from validation straight to its return of 1: no path is
\* resolved, no file queried, nothing is built and no child is created.
C2_UsageErrorStopsLauncher ==
    (Parsed /\ (argc < 3 \/ ~SameIgnoringCase(Arg(1), FlagText))) =>
        /\ pc \in {"usage", "done"}
        /\ NothingStarted
        /\ (pc = "done" => ret = 1)

C2_Witness ==
    /\ pc = "done" /\ ret = 1
    /\ argc = 4 /\ Arg(1) = <<"-", "S", "c", "r", "i", "p">>
    /\ NothingStarted

\* C3: once the child is created the launcher does not return while the
\* child is running; when it returns, its return value is the exit code the
\* child reported; and once the child has exited the launcher returns.
C3_ExitCodePropagated ==
    /\ [](child = "running" => pc # "done")
    /\ []((child # "none" /\ pc = "done") => (child = "exited" /\ ret = childExit))
    /\ ((child = "exited") ~> (pc = "done"))

C3_Witness ==
    /\ pc = "done" /\ child = "exited" /\ childExit = 0 /\ ret = 0
    /\ hProcess = "closed"

\* The forwarded parameters k (0-based) .. argc-1 as the claims describe their
\* text on the command line.
RECURSIVE EscapeQuotes(_)
EscapeQuotes(str) ==
    IF str = << >> THEN << >>
    ELSE (IF Head(str) = QUOTE THEN <<BACKSLASH, QUOTE>> ELSE <<Head(str)>>)
         \o EscapeQuotes(Tail(str))

ParamText(str) ==
    <<SPACE>> \o (IF PreQuoted(str) THEN str
                  ELSE <<QUOTE>> \o EscapeQuotes(str) \o <<QUOTE>>)

RECURSIVE ParamTexts(_, _)
ParamTexts(k, n) == IF k >= n THEN << >> ELSE ParamText(Arg(k)) \o ParamTexts(k + 1, n)

FlagRun == <<" ", "-", "N", "o", "n", "I", "n", "t", "e", "r", "a", "c", "t", "i", "v", "e", " ", "-", "N", "o", "P", "r", "o", "f", "i", "l", "e", " ", "-", "E", "x", "e", "c", "u", "t", "i", "o", "n", "P", "o", "l", "i", "c", "y", " ", "B", "y", "p", "a", "s", "s", " ", "-", "F", "i", "l", "e", " ">>

\* The command line up to and including the quoted script path.
HeadText == <<QUOTE>> \o psPath \o <<QUOTE>> \o FlagRun \o <<QUOTE>> \o Arg(2) \o <<QUOTE>>

\* The text the append at the current statement is to add to the buffer.
AppendPcs == {"q1", "ps", "q2", "flags", "q3", "script", "q4",
              "space", "param", "body", "closeq"}
PendingText ==
    CASE pc \in {"q1", "q2", "q3", "q4", "closeq"} -> <<QUOTE>>
      [] pc = "ps" -> psPath
      [] pc = "flags" -> FlagRun
      [] pc = "script" -> Arg(2)
      [] pc = "space" -> <<SPACE>>
      [] pc = "param" -> IF PreQuoted(Arg(i)) THEN Arg(i) ELSE <<QUOTE>>
      [] pc = "body" -> EscapeQuotes(Arg(i))
      [] OTHER -> << >>

\* The buffer is a terminated string of pos characters within its capacity.
Terminated ==
    /\ pos <= CMD_BUFFER_SIZE - 1
    /\ Len(cmd) <= CMD_BUFFER_SIZE
    /\ Len(cmd) >= pos + 1
    /\ cmd[pos + 1] = NUL
    /\ \A k \in 1..pos : cmd[k] \notin {NUL, UNINIT}

\* A step taken at an append statement: text that fits is added whole and
\* the launcher goes on; text that does not fit ends the run with 1.
AppendFitsOrFails ==
    pc \in AppendPcs =>
        IF pos + Len(PendingText) <= CMD_BUFFER_SIZE - 1
        THEN /\ pc' # "done"
             /\ pos' = pos + Len(PendingText)
             /\ SubSeq(cmd', 1, pos') = SubSeq(cmd, 1, pos) \o PendingText
        ELSE /\ pc' = "done" /\ ret' = 1
             /\ child' = "none" /\ childCmd' = << >>

\* C4: from the first append on, the buffer holds pos characters followed by
\* a terminator, with pos at most CMD_BUFFER_SIZE - 1 and no cell written
\* beyond the array; before it nothing is written.  An append whose text
\* fits adds exactly that text and goes on; one whose text does not fit
\* makes the launcher return 1 with no child created.  The command line a
\* child is given is the whole buffer content, of the full assembled length.
C4_BufferNeverTruncated ==
    /\ [](IF cmd = << >> THEN pos = 0 ELSE Terminated)
    /\ [][AppendFitsOrFails]_vars
    /\ [](child # "none" =>
            /\ childCmd = SubSeq(cmd, 1, pos)
            /\ Len(childCmd) = Len(HeadText) + Len(ParamTexts(3, argc)))

\* An append in the parameter loop failed half way through an escaped
\* parameter: the buffer is full and the launcher has returned 1.
C4_Witness ==
    /\ pc = "done" /\ ret = 1 /\ child = "none"
    /\ pos = CMD_BUFFER_SIZE - 2
    /\ Terminated
    /\ argc = 4 /\ Arg(3) = <<"a", QUOTE>>
    /\ cmd[pos] = "a"

\* The parameter whose iteration of the loop has just completed.
IterationDone == pc \in {"scan", "free"} /\ i > 3
LastParam == Arg(i - 1)
LastAppended == SubSeq(cmd, mark + 1, pos)

\* C5: after the iteration for a parameter that is not pre-quoted, the text
\* added to the buffer since the iteration began is a space, a double quote,
\* the parameter with each double quote turned into backslash double quote
\* and every other character kept, and a double quote.
C5_UnquotedParamWrapped ==
    (IterationDone /\ ~PreQuoted(LastParam)) =>
        /\ ~Contains(LastParam, SEMICOLON)
        /\ LastAppended = <<SPACE, QUOTE>> \o EscapeQuotes(LastParam) \o <<QUOTE>>
        /\ (~Contains(LastParam, QUOTE) =>
                LastAppended = <<SPACE, QUOTE>> \o LastParam \o <<QUOTE>>)

C5_Witness ==
    /\ IterationDone
    /\ LastParam = <<"a", QUOTE, BACKSLASH>>
    /\ LastAppended = <<SPACE, QUOTE, "a", BACKSLASH, QUOTE, BACKSLASH, QUOTE>>

\* C6: after the iteration for a pre-quoted parameter, the text added to the
\* buffer since the iteration began is a space and the parameter itself.
C6_PreQuotedParamVerbatim ==
    (IterationDone /\ PreQuoted(LastParam)) =>
        /\ ~Contains(LastParam, SEMICOLON)
        /\ LastAppended = <<SPACE>> \o LastParam

C6_Witness ==
    /\ IterationDone
    /\ LastParam = <<QUOTE, QUOTE, QUOTE>>
    /\ LastAppended = <<SPACE, QUOTE, QUOTE, QUOTE>>

\* C7: the command line a child is given is the quoted interpreter path, the
\* flag run, the quoted script path and then the text of every forwarded
\* parameter in order; with argc = 3 it ends at the quoted script path.
C7_CommandLineShape ==
    child # "none" =>
        /\ childCmd = HeadText \o ParamTexts(3, argc)
        /\ (argc = 3 => childCmd = HeadText)

C7_Witness ==
    /\ child # "none"
    /\ argc = 5 /\ Arg(3) = <<QUOTE>> /\ Arg(4) = <<"a">>
    /\ childCmd = HeadText \o <<SPACE, QUOTE, BACKSLASH, QUOTE, QUOTE, SPACE, QUOTE, "a", QUOTE>>

\* C8: when process creation has failed (err holds the last-error code) the
\* launcher has returned that code, the argument array was released before,
\* and there is no child, no handle and no wait.
C8_SpawnFailureCode ==
    /\ err # 0 =>
        /\ pc = "done" /\ ret = err
        /\ frees = 1
        /\ NoChildEver
    /\ pc = "create" => frees = 1
    /\ pc \in {"wait", "getexit", "close"} => (child # "none" /\ err = 0)

C8_Witness ==
    /\ pc = "done" /\ err = 5 /\ ret = 5
    /\ frees = 1 /\ child = "none" /\ cmd # << >>

\* C9: when the interpreter or the script is found missing the launcher has
\* returned 1 with nothing written to the command-line buffer and no child;
\* the script is queried only after the interpreter was found.
C9_MissingFileStopsLauncher ==
    /\ (psAttrs = INVALID_FILE_ATTRIBUTES \/ scriptAttrs = INVALID_FILE_ATTRIBUTES) =>
        /\ pc = "done" /\ ret = 1
        /\ cmd = << >> /\ pos = 0
        /\ NoChildEver
    /\ scriptAttrs # NotQueried =>
        (psAttrs # NotQueried /\ psAttrs # INVALID_FILE_ATTRIBUTES)
    /\ psAttrs = NotQueried => (cmd = << >> /\ child = "none")
    /\ scriptAttrs = NotQueried => (cmd = << >> /\ child = "none")

C9_Witness ==
    /\ pc = "done" /\ ret = 1
    /\ psAttrs # INVALID_FILE_ATTRIBUTES /\ scriptAttrs = INVALID_FILE_ATTRIBUTES
    /\ argc >= 3 /\ cmd = << >> /\ frees = 1

\* C10: in the default build no message is displayed on any path on which
\* the launcher returns without having run a child.
C10_AllFailuresSilent ==
    (~ENABLE_ERROR_DIALOGS /\ pc = "done" /\ child = "none") => shown = 0

\* C11: the argument array is released at most once, and exactly once by the
\* time the launcher has returned whenever parsing returned one; the child's
\* handles exist only for a created child, are closed by the time the
\* launcher has returned, are never closed twice or closed unopened, and are
\* closed only when the child's exit code has been read.
C11_ResourcesReleasedOnce ==
    /\ frees <= 1
    /\ ~Parsed => frees = 0
    /\ pc = "done" =>
        /\ Parsed => frees = 1
        /\ child # "none" => (hProcess = "closed" /\ hThread = "closed")
    /\ child = "none" => (hProcess = "null" /\ hThread = "null")
    /\ hProcess \in {"null", "open", "closed"}
    /\ hThread \in {"null", "open", "closed"}
    /\ (hProcess = "closed" \/ hThread = "closed") =>
        /\ pc = "done"
        /\ child = "exited"
        /\ exitCode = childExit
    /\ pc \in {"wait", "getexit", "close"} => (hProcess = "open" /\ hThread = "open")

C11_Witness ==
    /\ pc = "done" /\ child = "exited" /\ childExit = 3 /\ ret = 3
    /\ frees = 1 /\ hProcess = "closed" /\ hThread = "closed"
    /\ argc = 4

\* The launcher has returned from the semicolon scan of parameter i.
Rejected ==
    /\ pc = "done" /\ Parsed
    /\ i >= 3 /\ i < argc
    /\ Contains(Arg(i), SEMICOLON)

\* The statements that do not refer to the argument array.
AfterArgsPcs == {"create", "wait", "getexit", "close", "done"}

\* C12: while the launcher is at the scan of parameter i the buffer holds
\* the text of the parameters before i and nothing of parameter i; it is at
\* the separating space, the quoting decision or a later append of i only
\* when i holds no semicolon; when it has returned from the scan of a
\* parameter with a semicolon the buffer is still as it was when the
\* iteration began; and once the argument array is released the launcher
\* is only at statements that do not refer to it.
C12_ScanBeforeQuote ==
    /\ pc \in {"space", "param", "body", "closeq"} => ~Contains(Arg(i), SEMICOLON)
    /\ pc = "scan" =>
        /\ i >= 3 /\ i < argc
        /\ SubSeq(cmd, 1, pos) = HeadText \o ParamTexts(3, i)
    /\ Rejected =>
        /\ ret = 1 /\ frees = 1
        /\ pos = mark
        /\ cmd[pos + 1] = NUL
        /\ SubSeq(cmd, 1, pos) = HeadText \o ParamTexts(3, i)
        /\ NoChildEver
    /\ frees > 0 => pc \in AfterArgsPcs

C12_Witness ==
    /\ Rejected
    /\ argc = 5 /\ i = 4
    /\ Arg(3) = <<"a">> /\ Arg(4) = <<SEMICOLON>>
    /\ SubSeq(cmd, 1, pos) = HeadText \o <<SPACE, QUOTE, "a", QUOTE>>

\* The number of consecutive backslashes of s that begin at position k.
RECURSIVE BackslashRun(_, _)
BackslashRun(s, k) ==
    IF k <= Len(s) /\ s[k] = BACKSLASH THEN 1 + BackslashRun(s, k + 1) ELSE 0

RECURSIVE Backslashes(_)
Backslashes(n) == IF n <= 0 THEN << >> ELSE <<BACKSLASH>> \o Backslashes(n - 1)

\* The host's argument splitting, from position k of s on: cur is the token
\* being read, inToken says that a token has begun, inQuotes that a double
\* quote is open.  Whitespace outside quotes ends a token; a double quote
\* after 2n backslashes gives n backslashes and opens or closes the quotes;
\* a double quote after 2n+1 backslashes gives n backslashes and a literal
\* double quote; backslashes not followed by a double quote are literal.
RECURSIVE SplitFrom(_, _, _, _, _)
SplitFrom(s, k, cur, inToken, inQuotes) ==
    IF k > Len(s) THEN (IF inToken THEN <<cur>> ELSE << >>)
    ELSE IF s[k] = SPACE /\ ~inQuotes
    THEN (IF inToken THEN <<cur>> ELSE << >>) \o SplitFrom(s, k + 1, << >>, FALSE, FALSE)
    ELSE IF s[k] = BACKSLASH
    THEN LET n == BackslashRun(s, k)
             after == k + n
         IN  IF after <= Len(s) /\ s[after] = QUOTE
             THEN IF n % 2 = 0
                  THEN SplitFrom(s, after + 1, cur \o Backslashes(n \div 2), TRUE, ~inQuotes)
                  ELSE SplitFrom(s, after + 1, cur \o Backslashes(n \div 2) \o <<QUOTE>>,
                                 TRUE, inQuotes)
             ELSE SplitFrom(s, after, cur \o Backslashes(n), TRUE, inQuotes)
    ELSE IF s[k] = QUOTE
    THEN SplitFrom(s, k + 1, cur, TRUE, ~inQuotes)
    ELSE SplitFrom(s, k + 1, cur \o <<s[k]>>, TRUE, inQuotes)

CommandLineToArgvW(str) == SplitFrom(str, 1, << >>, FALSE, FALSE)

\* The tokens the child's command line splits into after the script path.
ForwardedTokens ==
    CommandLineToArgvW(SubSeq(childCmd, Len(HeadText) + 1, Len(childCmd)))

\* C13: when a child was created from parameters none of which is
\* pre-quoted, the part of its command line after the quoted script path
\* splits into as many tokens as there are forwarded parameters, and the
\* k-th of them is the k-th forwarded parameter, character for character.
C13_QuotingRoundTrip ==
    (child # "none" /\ \A k \in Forwarded : ~PreQuoted(Arg(k))) =>
        /\ SubSeq(childCmd, 1, Len(HeadText)) = HeadText
        /\ Len(ForwardedTokens) = argc - 3
        /\ \A k \in Forwarded : ForwardedTokens[k - 2] = Arg(k)

\* The claim holds of the parameters that hold no backslash.
C13_WithoutBackslash ==
    (child # "none" /\ \A k \in Forwarded :
        ~PreQuoted(Arg(k)) /\ ~Contains(Arg(k), BACKSLASH)) =>
        /\ Len(ForwardedTokens) = argc - 3
        /\ \A k \in Forwarded : ForwardedTokens[k - 2] = Arg(k)

\* A child created from the one parameter a\ .
C13_TrailingBackslash ==
    (child # "none" /\ argc = 4 /\ Arg(3) = <<"a", BACKSLASH>>) =>
        ForwardedTokens = <<Arg(3)>>

====
